---------------------------- MODULE Spec2Model ----------------------------
(***************************************************************************)
(* Model of the UIMessage <-> SimpleCAN bridge (uir/util/gateway.py), the  *)
(* simulated gateway responder (uir/device.py), the 16-byte UIMessage      *)
(* codec (uir/uimessage.py) and the arbitration-ID codec                   *)
(* (uir/simplecan.py).                                                     *)
(*                                                                         *)
(* Bytes are naturals 0..255, byte strings are sequences of bytes.  A      *)
(* Python list index i is the TLA+ sequence index i + 1.                   *)
(***************************************************************************)
EXTENDS Integers, Sequences, FiniteSets, TLC

(***************************************************************************)
(* Python's &, |, ^, << and >> on naturals.  The operators work bit by bit *)
(* on 4-bit digits, kept in tables, and digit by digit above that.         *)
(***************************************************************************)
RECURSIVE BitwiseBits(_, _, _)
BitwiseBits(a, b, bit) ==
    IF a = 0 /\ b = 0 THEN 0
    ELSE bit[a % 2][b % 2] + 2 * BitwiseBits(a \div 2, b \div 2, bit)

AndDigits ==
    [a \in 0..15 |-> [b \in 0..15 |->
        BitwiseBits(a, b, [x \in 0..1 |-> [y \in 0..1 |->
            IF x = 1 /\ y = 1 THEN 1 ELSE 0]])]]

OrDigits ==
    [a \in 0..15 |-> [b \in 0..15 |->
        BitwiseBits(a, b, [x \in 0..1 |-> [y \in 0..1 |->
            IF x = 1 \/ y = 1 THEN 1 ELSE 0]])]]

XorDigits ==
    [a \in 0..15 |-> [b \in 0..15 |->
        BitwiseBits(a, b, [x \in 0..1 |-> [y \in 0..1 |->
            IF x # y THEN 1 ELSE 0]])]]

RECURSIVE BitAnd(_, _)
BitAnd(a, b) ==
    IF a = 0 \/ b = 0 THEN 0
    ELSE AndDigits[a % 16][b % 16] + 16 * BitAnd(a \div 16, b \div 16)

RECURSIVE BitOr(_, _)
BitOr(a, b) ==
    IF a = 0 THEN b
    ELSE IF b = 0 THEN a
    ELSE OrDigits[a % 16][b % 16] + 16 * BitOr(a \div 16, b \div 16)

RECURSIVE BitXor(_, _)
BitXor(a, b) ==
    IF a = 0 THEN b
    ELSE IF b = 0 THEN a
    ELSE XorDigits[a % 16][b % 16] + 16 * BitXor(a \div 16, b \div 16)

Shl(a, n) == a * 2^n
Shr(a, n) == a \div 2^n

BoolInt(b) == IF b THEN 1 ELSE 0

(***************************************************************************)
(* uir/constants.py                                                        *)
(***************************************************************************)
PROTOCOL_PARAMETER == 1
WAKE_NODE == 6
MODEL == 11
SERIAL_NUMBER == 12
ERROR_REPORT == 15
SYSTEM_OPERATION == 126

GatewayModel_UIM2523 == <<25, 23>>

MASTER == 4
UIM2523 == 2
GLOBAL == 0

CAN_BITRATE == 5
KBPS_500 == 2
CANBitrateValues == 0..4

(***************************************************************************)
(* uir/uimessage.py                                                        *)
(***************************************************************************)
PACKET_LENGTH == 16

\* one round of the inner loop:
\*   crc = (crc >> 1) ^ poly if (crc & 1) else crc >> 1
crc16_shift(crc, poly) ==
    IF BitAnd(crc, 1) # 0 THEN BitXor(Shr(crc, 1), poly) ELSE Shr(crc, 1)

\* the inner loop, for _ in range(8), from round n on
RECURSIVE crc16_bits(_, _, _)
crc16_bits(crc, poly, n) ==
    IF n = 8 THEN crc
    ELSE LET c == crc16_shift(crc, poly)
         IN  IF c >= 0 THEN crc16_bits(c, poly, n + 1) ELSE c

\* the outer loop, for byte in data, from byte i on
RECURSIVE crc16_from(_, _, _, _)
crc16_from(crc, data, i, poly) ==
    IF i > Len(data) THEN crc
    ELSE LET c == crc16_bits(BitXor(crc, data[i]), poly, 0)
         IN  IF c >= 0 THEN crc16_from(c, data, i + 1, poly) ELSE c

\* crc16 with a fault seeded: only the first 8 bytes are summed
crc16_first_8_bytes(data) == crc16_from(65535, SubSeq(data, 1, 8), 1, 40961)

crc16(data) == crc16_from(65535, data, 1, 40961)

\* struct.pack of an '8s' field: truncated to 8 bytes, padded with zero bytes
Pad8(data) == [i \in 1..8 |-> IF i <= Len(data) THEN data[i] ELSE 0]

\* struct.pack of little-endian unsigned fields
PackLE16(x) == <<x % 256, (x \div 256) % 256>>
PackLE32(x) == <<x % 256, (x \div 256) % 256, (x \div 65536) % 256,
                 (x \div 16777216) % 256>>

UIMessage(device_id, function_code, data, need_checksum, need_ack, aux_byte, checksum) ==
    [device_id |-> device_id, function_code |-> function_code, data |-> data,
     need_checksum |-> need_checksum, need_ack |-> need_ack,
     aux_byte |-> aux_byte, checksum |-> checksum]

\* UIMessage(device_id=.., function_code=.., data=.., need_ack=..) with the
\* dataclass defaults need_checksum=True, aux_byte=0, checksum=0
UIMessageDefault(device_id, function_code, data, need_ack) ==
    UIMessage(device_id, function_code, data, TRUE, need_ack, 0, 0)

\* the inner pack(checksum) of UIMessage.serialize
pack(msg, checksum) ==
    << IF msg.need_checksum THEN 170 ELSE 173,
       msg.device_id,
       BitOr(Shl(BoolInt(msg.need_ack), 7), msg.function_code),
       Len(msg.data) >>
    \o Pad8(msg.data)
    \o << msg.aux_byte >>
    \o PackLE16(checksum)
    \o << 204 >>

serialize(msg) ==
    LET out == pack(msg, msg.checksum)
    IN  IF msg.need_checksum
        THEN pack(msg, crc16(SubSeq(out, 2, 13)))
        ELSE out

\* the reason UIMessage.deserialize raises on the packet, or "ok"
deserialize_error(packet) ==
    IF Len(packet) # PACKET_LENGTH THEN "struct.error"
    ELSE IF packet[1] \notin {170, 172, 173} THEN "assert_som"
    ELSE IF packet[16] # 204 THEN "assert_eom"
    ELSE IF ~(0 <= packet[4] /\ packet[4] <= 8) THEN "assert_length"
    ELSE "ok"

\* deserialize with a fault seeded: the data is not cut to data_length
deserialize_padded(packet) ==
    UIMessage(packet[2], BitAnd(packet[3], 127), SubSeq(packet, 5, 12),
              packet[1] = 170, BitAnd(packet[3], 128) # 0, packet[13],
              packet[14] + 256 * packet[15])

deserialize(packet) ==
    LET start_of_message == packet[1]
        device_id == packet[2]
        control_word == packet[3]
        data_length == packet[4]
        data == SubSeq(packet, 5, 4 + data_length)
        aux_byte == packet[13]
        checksum == packet[14] + 256 * packet[15]
    IN  UIMessage(device_id,
                  BitAnd(control_word, 127),
                  data,
                  start_of_message = 170,
                  BitAnd(control_word, 128) # 0,
                  aux_byte,
                  checksum)

(***************************************************************************)
(* uir/simplecan.py                                                        *)
(***************************************************************************)
SimpleCANIdentifier(producer_id, consumer_id, control_word) ==
    [producer_id |-> producer_id, consumer_id |-> consumer_id,
     control_word |-> control_word]

arbitration_id(id) ==
    LET p_lo == BitAnd(id.producer_id, 31)
        p_hi == BitAnd(Shr(id.producer_id, 5), 3)
        c_lo == BitAnd(id.consumer_id, 31)
        c_hi == BitAnd(Shr(id.consumer_id, 5), 3)
    IN  BitOr(BitOr(BitOr(BitOr(Shl(p_lo, 24), Shl(c_lo, 19)),
                          Shl(p_hi, 16)), Shl(c_hi, 14)),
              BitAnd(id.control_word, 255))

\* from_arbitration_id with a fault seeded: the two high-bit fields are
\* read from each other's place
from_arbitration_id_swapped_hi(aid) ==
    SimpleCANIdentifier(
        BitOr(Shl(BitAnd(Shr(aid, 14), 3), 5), BitAnd(Shr(aid, 24), 31)),
        BitOr(Shl(BitAnd(Shr(aid, 16), 3), 5), BitAnd(Shr(aid, 19), 31)),
        BitAnd(aid, 255))

from_arbitration_id(aid) ==
    LET p_lo == BitAnd(Shr(aid, 24), 31)
        p_hi == BitAnd(Shr(aid, 16), 3)
        c_lo == BitAnd(Shr(aid, 19), 31)
        c_hi == BitAnd(Shr(aid, 14), 3)
    IN  SimpleCANIdentifier(BitOr(Shl(p_hi, 5), p_lo),
                            BitOr(Shl(c_hi, 5), c_lo),
                            BitAnd(aid, 255))

(***************************************************************************)
(* uir/device.py: the simulated gateway's state and the messages it sends  *)
(***************************************************************************)
SimUIGateway(node_id) ==
    [node_id |-> node_id, group_id |-> node_id, can_bitrate |-> KBPS_500,
     serial_number |-> 1234512345, manufacturer_id |-> 16705,
     vendor_id |-> 16962]

\* addressed with a fault seeded: the global group id is forgotten
addressed_without_global(gw, msg) == msg.device_id \in {gw.node_id, gw.group_id}

addressed(gw, msg) == msg.device_id \in {GLOBAL, gw.node_id, gw.group_id}

\* the UIMessage handle_get_model sends
model_reply(gw) ==
    UIMessageDefault(gw.node_id, MODEL,
                     GatewayModel_UIM2523 \o <<0, 0, 105, 122, 0, 0>>, FALSE)

\* the UIMessage handle_get_serial_number sends: struct.pack('<LHH', ..)
serial_number_reply(gw) ==
    UIMessageDefault(gw.node_id, SERIAL_NUMBER,
                     PackLE32(gw.serial_number) \o PackLE16(gw.manufacturer_id)
                         \o PackLE16(gw.vendor_id),
                     FALSE)

\* the UIMessage handle_protocol_parameter sends: struct.pack('<BB', ..)
can_bitrate_reply(gw) ==
    UIMessageDefault(gw.node_id, PROTOCOL_PARAMETER,
                     <<CAN_BITRATE, gw.can_bitrate>>, FALSE)

(***************************************************************************)
(* Bounds and the inputs the environment can supply                        *)
(***************************************************************************)
MaxConns == 2

Conns == 1..MaxConns

\* device ids: the global group, the gateway's node id, somebody else
InDeviceIds == {0, 2, 99}

\* (function_code, data) of the well-formed frames a stream client sends
InPayloads ==
    { <<MODEL, <<>> >>,
      <<SERIAL_NUMBER, <<>> >>,
      <<SERIAL_NUMBER, <<1, 2, 3, 4>> >>,
      <<PROTOCOL_PARAMETER, <<>> >>,
      <<PROTOCOL_PARAMETER, <<5>> >>,
      <<PROTOCOL_PARAMETER, <<5, 3>> >>,
      <<PROTOCOL_PARAMETER, <<5, 9>> >>,
      <<PROTOCOL_PARAMETER, <<5, 3, 0>> >>,
      <<PROTOCOL_PARAMETER, <<7, 1>> >>,
      <<WAKE_NODE, <<10, 0>> >>,
      <<SYSTEM_OPERATION, <<>> >>,
      <<34, <<1>> >> }

InMessages ==
    { UIMessageDefault(d, pl[1], pl[2], a) :
        d \in InDeviceIds, pl \in InPayloads, a \in BOOLEAN }

GoodPackets == { serialize(m) : m \in InMessages }

\* S1 of the specification: GET MODEL to node 2
S1Packet == serialize(UIMessageDefault(2, MODEL, <<>>, TRUE))
\* SET CAN bitrate to 250 kbps
S3Packet == serialize(UIMessageDefault(2, PROTOCOL_PARAMETER, <<5, 3>>, FALSE))

\* frames the decoder or the checksum test has to deal with
OddPackets ==
    { [S1Packet EXCEPT ![1] = 171],        \* bad start of message
      [S1Packet EXCEPT ![16] = 205],       \* bad end of message
      [S1Packet EXCEPT ![4] = 9],          \* data_length > 8
      [S1Packet EXCEPT ![5] = 1],          \* payload byte flipped, CRC kept
      [S3Packet EXCEPT ![6] = 4],          \* payload byte flipped, CRC kept
      [S1Packet EXCEPT ![1] = 173],        \* unchecksummed framing
      [S3Packet EXCEPT ![1] = 173, ![14] = 0, ![15] = 0],
      [S1Packet EXCEPT ![1] = 172, ![14] = 0],   \* 0xAC with a wrong CRC
      SubSeq(S1Packet, 1, 5) }             \* a read that returned 5 bytes

InPackets == GoodPackets \cup OddPackets

\* CAN frames the bus can deliver: arbitration id, dlc, data
CanMessage(aid, data) ==
    [arbitration_id |-> aid, dlc |-> Len(data), data |-> data]

InCanMessages ==
    { CanMessage(arbitration_id(SimpleCANIdentifier(p, c, w)), d) :
        p \in {7, 2, 100}, c \in {0, 2, 99}, w \in {15, 139},
        d \in { <<>>, <<222, 173>>, <<1, 2, 3, 4, 5, 6, 7, 8>> } }

\* the UIMessage on_can_message builds from a CAN frame
from_can(m) ==
    LET msg_id == from_arbitration_id(m.arbitration_id)
    IN  UIMessageDefault(msg_id.producer_id,
                         BitAnd(msg_id.control_word, 127),
                         SubSeq(m.data, 1, m.dlc),
                         BitAnd(msg_id.control_word, 128) # 0)

(***************************************************************************)
(* serialize() and crc16() of the values the runs below meet are computed  *)
(* once and looked up; a value outside the tables is computed in place.    *)
(***************************************************************************)
TabledGateways ==
    { [SimUIGateway(UIM2523) EXCEPT !.can_bitrate = b] : b \in 0..9 }

TabledMessages ==
    { from_can(m) : m \in InCanMessages }
    \cup { model_reply(gw) : gw \in TabledGateways }
    \cup { serial_number_reply(gw) : gw \in TabledGateways }
    \cup { can_bitrate_reply(gw) : gw \in TabledGateways }

SerializeTable == [m \in TabledMessages |-> serialize(m)]

PacketCrcTable ==
    [p \in {q \in InPackets : Len(q) = PACKET_LENGTH} |-> crc16(SubSeq(p, 2, 13))]

\* msg.serialize()
serialized(msg) ==
    IF msg \in DOMAIN SerializeTable THEN SerializeTable[msg] ELSE serialize(msg)

\* crc16(packet[1:-3])
packet_crc(packet) ==
    IF packet \in DOMAIN PacketCrcTable THEN PacketCrcTable[packet]
    ELSE crc16(SubSeq(packet, 2, 13))

(***************************************************************************)
(* uir/device.py: the responder.  Its operators take the gateway state and *)
(* a message and return a record                                           *)
(*   gateway : the state afterwards                                        *)
(*   out     : the byte strings written to the transport, in order         *)
(*   raised  : "none", or the exception that left the method               *)
(***************************************************************************)
Returned(gw, out) == [gateway |-> gw, out |-> out, raised |-> "none"]
Raised(gw, out, exc) == [gateway |-> gw, out |-> out, raised |-> exc]

\* send_message with a fault seeded: the frame goes out without its checksum
send_message_unchecksummed(msg) ==
    << serialize([msg EXCEPT !.need_checksum = FALSE]) >>

\* the transport is an asyncio StreamWriter: no send(), no flush(), so the
\* serialized message goes to transport.write()
send_message(msg) == << serialized(msg) >>

\* handle_get_model with a fault seeded: the reply echoes the request's
\* device_id
handle_get_model_echo(gw, msg) ==
    Returned(gw, send_message([model_reply(gw) EXCEPT !.device_id = msg.device_id]))

handle_get_model(gw, msg) == Returned(gw, send_message(model_reply(gw)))

handle_get_serial_number(gw, msg) ==
    Returned(gw, send_message(serial_number_reply(gw)))

handle_protocol_parameter(gw, msg) ==
    IF Len(msg.data) = 0
    THEN Raised(gw, <<>>, "IndexError")            \* msg.data[0]
    ELSE
      LET param == msg.data[1]
          value == Tail(msg.data)
          is_write == Len(msg.data) > 1
      IN  IF param = CAN_BITRATE
          THEN LET gw1 == IF is_write
                          THEN [gw EXCEPT !.can_bitrate = value[1]]
                          ELSE gw
               IN  IF is_write /\ gw1.can_bitrate \notin CANBitrateValues
                   THEN Raised(gw1, <<>>, "ValueError") \* CANBitrate(..).name
                   ELSE Returned(gw1, send_message(can_bitrate_reply(gw1)))
          ELSE Returned(gw, <<>>)

\* handle_message with a fault seeded: the address filter is missing
handle_message_unfiltered(gw, msg) ==
    IF msg.function_code = MODEL /\ msg.need_ack
         THEN handle_get_model(gw, msg)
    ELSE IF msg.function_code = SERIAL_NUMBER /\ msg.need_ack
         THEN handle_get_serial_number(gw, msg)
    ELSE IF msg.function_code = PROTOCOL_PARAMETER
         THEN handle_protocol_parameter(gw, msg)
    ELSE Returned(gw, <<>>)

handle_message(gw, msg) ==
    IF ~addressed(gw, msg) THEN Returned(gw, <<>>)
    ELSE IF msg.function_code = MODEL /\ msg.need_ack
         THEN handle_get_model(gw, msg)
    ELSE IF msg.function_code = SERIAL_NUMBER /\ msg.need_ack
         THEN handle_get_serial_number(gw, msg)
    ELSE IF msg.function_code = PROTOCOL_PARAMETER
         THEN handle_protocol_parameter(gw, msg)
    ELSE Returned(gw, <<>>)

(***************************************************************************)
(* uir/util/gateway.py: the bridge                                         *)
(***************************************************************************)
VARIABLES
    gateway,     \* the module-global SimUIGateway
    tcp_sinks,   \* the module-global list of writers, one per connection
    conn,        \* per connection: "idle" (not accepted yet), "open"
                 \* (tcp_server is in its read loop), "closed" (writer closed)
    last,        \* what the latest step did (history, read by the properties)
    rx,          \* per connection: the chunks in the StreamReader, each one
                 \* what a reader.read(16) returns, oldest first
    sent,        \* per connection: every chunk that arrived, in arrival
                 \* order (history)
    can_queue,   \* the on_can_message calls the notifier has scheduled on
                 \* the event loop, oldest first
    can_seen,    \* every CAN frame the notifier read, in bus order (history)
    trace,       \* the steps taken, in order, each with tcp_sinks as it was
                 \* when the step began (history)
    probe,       \* a codec under test: its input and what it returned
    main_pc      \* where main() is: "serving" (in serve_forever), "cancelled"
                 \* (its task is cancelled but has not run yet), "stopped"
                 \* (it ran its finally: block and returned)

bridge == <<gateway, tcp_sinks, conn, last>>
queues == <<rx, sent, can_queue, can_seen, trace>>
vars == <<gateway, tcp_sinks, conn, last, rx, sent, can_queue, can_seen,
          trace, probe, main_pc>>

NoWrites == [c \in Conns |-> <<>>]

Step(kind, c, packet, canmsg, outcome, pre, wrote, can_sent) ==
    [kind |-> kind, conn |-> c, packet |-> packet, canmsg |-> canmsg,
     outcome |-> outcome, pre |-> pre, wrote |-> wrote, can_sent |-> can_sent]

NoCan == CanMessage(0, <<>>)

\* a codec probe: op says which codec, stage how far it went
Probe(op, stage, message, packet, error, decoded, ident, aid, unpacked) ==
    [op |-> op, stage |-> stage, message |-> message, packet |-> packet,
     error |-> error, decoded |-> decoded, ident |-> ident, aid |-> aid,
     unpacked |-> unpacked]

NoMessage == UIMessageDefault(0, 0, <<>>, FALSE)
NoIdent == SimpleCANIdentifier(0, 0, 0)
NoProbe == Probe("none", "none", NoMessage, <<>>, "none", NoMessage, NoIdent, 0, NoIdent)

\* the module globals after import and the first lines of main()
InitBridge ==
    /\ gateway = SimUIGateway(UIM2523)
    /\ tcp_sinks = <<>>
    /\ conn = [c \in Conns |-> "idle"]
    /\ last = Step("init", 0, <<>>, NoCan, "none", gateway, NoWrites, <<>>)
    /\ rx = [c \in Conns |-> <<>>]
    /\ sent = [c \in Conns |-> <<>>]
    /\ can_queue = <<>>
    /\ can_seen = <<>>
    /\ trace = <<>>
    /\ main_pc = "serving"

Init ==
    /\ InitBridge
    /\ probe = NoProbe

\* list.remove(x): drops the first element equal to x
RECURSIVE Remove(_, _)
Remove(list, x) ==
    IF list = <<>> THEN <<>>
    ELSE IF Head(list) = x THEN Tail(list)
    ELSE <<Head(list)>> \o Remove(Tail(list), x)

\* asyncio.start_server calls tcp_server for the next accepted connection;
\* the coroutine runs up to its first await reader.read(16)
Accept(c) ==
    /\ conn[c] = "idle"
    /\ \A d \in Conns : d < c => conn[d] # "idle"
    /\ tcp_sinks' = Append(tcp_sinks, c)
    /\ conn' = [conn EXCEPT ![c] = "open"]
    /\ last' = Step("accept", c, <<>>, NoCan, "none", gateway, NoWrites, <<>>)
    /\ UNCHANGED gateway

\* the finally: block with a fault seeded: the writer stays in tcp_sinks
Finally_keeps_sink(c) ==
    /\ tcp_sinks' = tcp_sinks
    /\ conn' = [conn EXCEPT ![c] = "closed"]

\* the finally: block of tcp_server
Finally(c) ==
    /\ tcp_sinks' = Remove(tcp_sinks, c)
    /\ conn' = [conn EXCEPT ![c] = "closed"]

\* the producer id tcp_server puts in the arbitration id
producer_of(gw) == gw.node_id

\* the can.Message tcp_server builds for a decoded frame
to_can(gw, msg) ==
    [is_extended_id |-> TRUE,
     arbitration_id |-> arbitration_id(SimpleCANIdentifier(
         producer_of(gw), msg.device_id,
         BitOr(Shl(BoolInt(msg.need_ack), 7), msg.function_code))),
     dlc |-> Len(msg.data),
     data |-> msg.data]

\* checksum_mismatch with a fault seeded: the checksum test is missing
checksum_unchecked(packet, msg) == FALSE

\* crc16(packet[1:-3]) != msg.checksum
checksum_mismatch(packet, msg) ==
    msg.need_checksum /\ packet_crc(packet) # msg.checksum

\* handle_packet with a fault seeded: the frame is also written back to the
\* client it came from
handle_packet_reflecting(gw, packet, can_ok) ==
    IF deserialize_error(packet) # "ok"
    THEN [gateway |-> gw, reply |-> <<>>, can_sent |-> <<>>,
          outcome |-> deserialize_error(packet)]
    ELSE [gateway |-> gw, reply |-> << packet >>,
          can_sent |-> << to_can(gw, deserialize(packet)) >>, outcome |-> "ok"]

\* One iteration of the read loop on a packet of 1..16 bytes: what it leaves
\* behind.  can_ok says whether can_bus.send returns or raises.
\*   outcome : "ok", "bad_checksum" (continue), or the exception that ended
\*             the loop
handle_packet(gw, packet, can_ok) ==
    LET err == deserialize_error(packet)
        msg == deserialize(packet)
        h == handle_message(gw, msg)
    IN  IF err # "ok"
        THEN [gateway |-> gw, reply |-> <<>>, can_sent |-> <<>>, outcome |-> err]
        ELSE IF checksum_mismatch(packet, msg)
        THEN [gateway |-> gw, reply |-> <<>>, can_sent |-> <<>>,
              outcome |-> "bad_checksum"]
        ELSE IF h.raised # "none"
        THEN [gateway |-> h.gateway, reply |-> h.out, can_sent |-> <<>>,
              outcome |-> h.raised]
        ELSE IF ~can_ok
        THEN [gateway |-> h.gateway, reply |-> h.out, can_sent |-> <<>>,
              outcome |-> "CanError"]
        ELSE [gateway |-> h.gateway, reply |-> h.out,
              can_sent |-> << to_can(h.gateway, msg) >>, outcome |-> "ok"]

\* whether the loop goes on to the next read after this outcome
continues(outcome) == outcome \in {"ok", "bad_checksum"}

\* reply_writes with a fault seeded: the reply goes to every connection
reply_writes_broadcast(c, reply) == [d \in Conns |-> reply]

\* gateway.handle_message(writer, msg): the responder's sink is the writer of
\* the connection the frame came from
reply_writes(c, reply) == [NoWrites EXCEPT ![c] = reply]

\* tcp_server: reader.read(16) returned a non-empty packet
StreamFrame(c, packet, can_ok) ==
    /\ conn[c] = "open"
    /\ LET r == handle_packet(gateway, packet, can_ok)
       IN  /\ gateway' = r.gateway
           /\ last' = Step("stream", c, packet, NoCan, r.outcome, gateway,
                           reply_writes(c, r.reply), r.can_sent)
           /\ IF continues(r.outcome)
              THEN UNCHANGED <<tcp_sinks, conn>>
              ELSE Finally(c)

\* tcp_server: reader.read(16) returned b'' (end of stream) or raised
StreamEnd(c) ==
    /\ conn[c] = "open"
    /\ Finally(c)
    /\ last' = Step("end", c, <<>>, NoCan, "none", gateway, NoWrites, <<>>)
    /\ UNCHANGED gateway

\* fan_out with a fault seeded: only the first sink is written
fan_out_first_only(sinks, tcp_msg) ==
    [c \in Conns |->
        IF sinks # <<>> /\ sinks[1] = c THEN << serialized(tcp_msg) >> ELSE <<>>]

\* the writes of on_can_message: one serialized frame per entry of tcp_sinks
fan_out(sinks, tcp_msg) ==
    [c \in Conns |->
        LET n == Cardinality({i \in DOMAIN sinks : sinks[i] = c})
        IN  [i \in 1..n |-> serialized(tcp_msg)]]

\* on_can_message, called by the notifier on the event loop
OnCanMessage(m) ==
    /\ last' = Step("can", 0, <<>>, m, "none", gateway,
                    fan_out(tcp_sinks, from_can(m)), <<>>)
    /\ UNCHANGED <<gateway, tcp_sinks, conn>>

\* Any packet may be the next read and any frame the next callback: the
\* queues are left out.
Next ==
    \/ \E c \in Conns : Accept(c) /\ UNCHANGED <<queues, probe, main_pc>>
    \/ \E c \in Conns, packet \in InPackets, can_ok \in BOOLEAN :
           StreamFrame(c, packet, can_ok) /\ UNCHANGED <<queues, probe, main_pc>>
    \/ \E c \in Conns : StreamEnd(c) /\ UNCHANGED <<queues, probe, main_pc>>
    \/ \E m \in InCanMessages : OnCanMessage(m) /\ UNCHANGED <<queues, probe, main_pc>>

Spec == Init /\ [][Next]_vars

(***************************************************************************)
(* The bridge with its queues: clients' chunks wait in the StreamReader of *)
(* their connection and CAN frames wait as callbacks on the event loop,    *)
(* and every step is appended to the trace.                                *)
(***************************************************************************)
MaxEvents == 2

\* a MODEL query, a CAN_BITRATE write, and a frame with a bad end byte
QueuedPackets == { S1Packet, S3Packet, [S1Packet EXCEPT ![16] = 205] }

QueuedCanMessages ==
    { CanMessage(arbitration_id(SimpleCANIdentifier(7, 2, 15)), <<222, 173>>),
      CanMessage(arbitration_id(SimpleCANIdentifier(100, 0, 139)), <<>>) }

\* how many chunks and CAN frames have arrived so far
RECURSIVE ChunksSent(_)
ChunksSent(c) == IF c = 0 THEN 0 ELSE Len(sent[c]) + ChunksSent(c - 1)

Events == Len(can_seen) + ChunksSent(MaxConns)

Traced == trace' = Append(trace, [step |-> last', sinks |-> tcp_sinks])

\* next_chunk with a fault seeded: the newest chunk is read first
next_chunk_newest(buffer) == buffer[Len(buffer)]

\* await reader.read(16): the oldest chunk in the StreamReader
next_chunk(buffer) == Head(buffer)

\* next_callback with a fault seeded: the newest callback runs first
next_callback_newest(queue) == queue[Len(queue)]

\* the event loop runs the scheduled callbacks oldest first
next_callback(queue) == Head(queue)

QueuedAccept(c) ==
    /\ Accept(c)
    /\ Traced
    /\ UNCHANGED <<rx, sent, can_queue, can_seen, probe>>

\* a chunk from the client reaches the StreamReader of its connection
ClientSends(c, packet) ==
    /\ conn[c] = "open"
    /\ Events < MaxEvents
    /\ rx' = [rx EXCEPT ![c] = Append(@, packet)]
    /\ sent' = [sent EXCEPT ![c] = Append(@, packet)]
    /\ UNCHANGED <<bridge, can_queue, can_seen, trace, probe>>

\* one iteration of the read loop of tcp_server
QueuedStreamFrame(c, can_ok) ==
    /\ rx[c] # <<>>
    /\ StreamFrame(c, next_chunk(rx[c]), can_ok)
    /\ rx' = [rx EXCEPT ![c] = Tail(@)]
    /\ Traced
    /\ UNCHANGED <<sent, can_queue, can_seen, probe>>

\* reader.read(16) returns b'' once the buffered chunks are read, or raises
QueuedStreamEnd(c) ==
    /\ StreamEnd(c)
    /\ Traced
    /\ UNCHANGED <<rx, sent, can_queue, can_seen, probe>>

\* the notifier thread reads a frame from the bus and schedules
\* on_can_message on the event loop
CanArrives(m) ==
    /\ Events < MaxEvents
    /\ can_queue' = Append(can_queue, m)
    /\ can_seen' = Append(can_seen, m)
    /\ UNCHANGED <<bridge, rx, sent, trace, probe>>

\* the event loop runs the next scheduled on_can_message
QueuedOnCanMessage ==
    /\ can_queue # <<>>
    /\ OnCanMessage(next_callback(can_queue))
    /\ can_queue' = Tail(can_queue)
    /\ Traced
    /\ UNCHANGED <<rx, sent, can_seen, probe>>

NextQueued ==
    \/ \E c \in Conns : QueuedAccept(c) /\ UNCHANGED main_pc
    \/ \E c \in Conns, packet \in QueuedPackets :
           ClientSends(c, packet) /\ UNCHANGED main_pc
    \/ \E c \in Conns, can_ok \in BOOLEAN :
           QueuedStreamFrame(c, can_ok) /\ UNCHANGED main_pc
    \/ \E c \in Conns : QueuedStreamEnd(c) /\ UNCHANGED main_pc
    \/ \E m \in QueuedCanMessages : CanArrives(m) /\ UNCHANGED main_pc
    \/ QueuedOnCanMessage /\ UNCHANGED main_pc

SpecQueued == Init /\ [][NextQueued]_vars

(***************************************************************************)
(* The bridge from start to shutdown: sync_main runs main() under          *)
(* asyncio.run; an interrupt cancels the main task, main() leaves          *)
(* serve_forever, stops the notifier and shuts the bus down, and when it   *)
(* has returned asyncio.run cancels the tasks that are left, one per open  *)
(* connection.                                                             *)
(***************************************************************************)
\* the interrupt: asyncio.run cancels the task that runs main()
Cancel ==
    /\ main_pc = "serving"
    /\ main_pc' = "cancelled"
    /\ UNCHANGED <<bridge, queues, probe>>

\* main() resumes with CancelledError in serve_forever, which closes the
\* listener; the except clause passes and the finally: block runs
\* notifier.stop() and can_bus.shutdown().  Callbacks the notifier has
\* already handed to the event loop stay scheduled.
MainFinally ==
    /\ main_pc = "cancelled"
    /\ main_pc' = "stopped"
    /\ UNCHANGED <<bridge, queues, probe>>

\* asyncio.run, after main() returned, cancels the task of an open
\* connection: reader.read(16) raises CancelledError and the finally: block
\* of tcp_server runs
TaskCancelled(c) ==
    /\ main_pc = "stopped"
    /\ conn[c] = "open"
    /\ Finally(c)
    /\ last' = Step("cancelled", c, <<>>, NoCan, "CancelledError", gateway,
                    NoWrites, <<>>)
    /\ Traced
    /\ UNCHANGED <<gateway, rx, sent, can_queue, can_seen, probe, main_pc>>

\* the event loop is run as long as main() or a connection task is left
LoopRuns == main_pc # "stopped" \/ \E c \in Conns : conn[c] = "open"

NextShutdown ==
    \/ \E c \in Conns :
           main_pc # "stopped" /\ QueuedAccept(c) /\ UNCHANGED main_pc
    \/ \E c \in Conns, packet \in QueuedPackets :
           ClientSends(c, packet) /\ UNCHANGED main_pc
    \/ \E c \in Conns, can_ok \in BOOLEAN :
           main_pc # "stopped" /\ QueuedStreamFrame(c, can_ok)
               /\ UNCHANGED main_pc
    \/ \E c \in Conns :
           main_pc # "stopped" /\ QueuedStreamEnd(c) /\ UNCHANGED main_pc
    \/ \E m \in QueuedCanMessages :
           main_pc # "stopped" /\ CanArrives(m) /\ UNCHANGED main_pc
    \/ LoopRuns /\ QueuedOnCanMessage /\ UNCHANGED main_pc
    \/ Cancel
    \/ MainFinally
    \/ \E c \in Conns : TaskCancelled(c)

\* asyncio.run runs the event loop until main() is done and until the
\* cancelled tasks are done
FairShutdown ==
    /\ WF_vars(MainFinally)
    /\ \A c \in Conns : WF_vars(TaskCancelled(c))

SpecShutdown == Init /\ [][NextShutdown]_vars /\ FairShutdown

(***************************************************************************)
(* The codecs on their own: a message or an identifier is drawn, encoded   *)
(* and decoded again.                                                      *)
(***************************************************************************)
CodecData ==
    { <<>>, <<0>>, <<1, 2, 3>>, <<5, 0, 0>>, <<1, 2, 3, 4, 5, 6, 7, 0>>,
      <<255, 254, 253, 252, 251, 250, 249, 248>> }

CodecMessages ==
    { UIMessage(d, f, data, ck, ack, aux, sum) :
        d \in {0, 2, 255}, f \in {0, 11, 127}, data \in CodecData,
        ck \in BOOLEAN, ack \in BOOLEAN, aux \in {0, 7, 255},
        sum \in {0, 4660, 65535} }

CodecNodeIds == {0, 1, 2, 4, 31, 32, 33, 64, 96, 127}

CodecIdentifiers ==
    { SimpleCANIdentifier(p, c, w) :
        p \in CodecNodeIds, c \in CodecNodeIds,
        w \in {0, 1, 15, 127, 128, 139, 255} }

\* checksummed messages sent over the stream, with 0, 1, 2, 4 and 8 data bytes
WireMessages ==
    { UIMessageDefault(2, MODEL, <<>>, TRUE),
      UIMessageDefault(2, PROTOCOL_PARAMETER, <<5>>, FALSE),
      UIMessageDefault(0, PROTOCOL_PARAMETER, <<5, 3>>, FALSE),
      UIMessageDefault(2, SERIAL_NUMBER, <<1, 2, 3, 4>>, FALSE),
      UIMessageDefault(99, 34, <<1, 2, 3, 4, 5, 6, 7, 8>>, TRUE) }

\* the bits of bytes 1..12 of a frame: bit b is bit b % 8 of byte 1 + b \div 8
WireBits == 0..95

\* the frame with one bit of bytes 1..12 inverted on the way
flip_bit(packet, b) ==
    [packet EXCEPT ![2 + (b \div 8)] = BitXor(@, 2^(b % 8))]

InitCodec ==
    /\ InitBridge
    /\ probe \in
          { Probe("uimessage", "input", m, <<>>, "none", NoMessage, NoIdent, 0, NoIdent) :
              m \in CodecMessages }
          \cup
          { Probe("canid", "input", NoMessage, <<>>, "none", NoMessage, id, 0, NoIdent) :
              id \in CodecIdentifiers }
          \cup
          { Probe("wire", "input", m, <<>>, "none", NoMessage, NoIdent, 0, NoIdent) :
              m \in WireMessages }

\* UIMessage.serialize
Serialize ==
    /\ probe.op \in {"uimessage", "wire"} /\ probe.stage = "input"
    /\ probe' = [probe EXCEPT !.stage = "packed",
                              !.packet = serialize(probe.message)]
    /\ UNCHANGED <<bridge, queues>>

\* UIMessage.deserialize: the message, or the exception it raises
Deserialize ==
    /\ probe.op = "uimessage" /\ probe.stage = "packed"
    /\ LET err == deserialize_error(probe.packet)
       IN  probe' = [probe EXCEPT !.stage = "done", !.error = err,
                                  !.decoded = IF err = "ok"
                                              THEN deserialize(probe.packet)
                                              ELSE NoMessage]
    /\ UNCHANGED <<bridge, queues>>

\* the arbitration_id property of SimpleCANIdentifier
PackIdentifier ==
    /\ probe.op = "canid" /\ probe.stage = "input"
    /\ probe' = [probe EXCEPT !.stage = "packed",
                              !.aid = arbitration_id(probe.ident)]
    /\ UNCHANGED <<bridge, queues>>

\* SimpleCANIdentifier.from_arbitration_id
UnpackIdentifier ==
    /\ probe.op = "canid" /\ probe.stage = "packed"
    /\ probe' = [probe EXCEPT !.stage = "done",
                              !.unpacked = from_arbitration_id(probe.aid)]
    /\ UNCHANGED <<bridge, queues>>

\* one bit of the serialized frame changes between the sender and the bridge
FlipBit(b) ==
    /\ probe.op = "wire" /\ probe.stage = "packed"
    /\ probe' = [probe EXCEPT !.stage = "flipped",
                              !.packet = flip_bit(probe.packet, b)]
    /\ UNCHANGED <<bridge, queues>>

\* tcp_server reads the frame, intact or not: deserialize, the checksum
\* test, the responder and the CAN publication, on a fresh gateway
Receive ==
    /\ probe.op = "wire" /\ probe.stage \in {"packed", "flipped"}
    /\ LET r == handle_packet(SimUIGateway(UIM2523), probe.packet, TRUE)
       IN  probe' = [probe EXCEPT
                        !.stage = IF probe.stage = "packed"
                                  THEN "received" ELSE "received_flipped",
                        !.error = r.outcome,
                        !.decoded = IF deserialize_error(probe.packet) = "ok"
                                    THEN deserialize(probe.packet)
                                    ELSE NoMessage]
    /\ UNCHANGED <<bridge, queues>>

NextCodec ==
    \/ Serialize /\ UNCHANGED main_pc
    \/ Deserialize /\ UNCHANGED main_pc
    \/ PackIdentifier /\ UNCHANGED main_pc
    \/ UnpackIdentifier /\ UNCHANGED main_pc
    \/ \E b \in WireBits : FlipBit(b) /\ UNCHANGED main_pc
    \/ Receive /\ UNCHANGED main_pc

SpecCodec == InitCodec /\ [][NextCodec]_vars

(***************************************************************************)
(* Vocabulary of the properties.  They read the latest step from `last`    *)
(* and take the frame apart by plain arithmetic on its bytes.              *)
(***************************************************************************)
Range(f) == { f[i] : i \in DOMAIN f }

InSinks(c) == c \in Range(tcp_sinks)

\* fields of a 16-byte frame, by the wire layout
FrameDeviceId(p) == p[2]
FrameNeedAck(p) == p[3] >= 128
FrameFunctionCode(p) == p[3] % 128
FrameDataLength(p) == p[4]
FrameData(p) == [i \in 1..p[4] |-> p[4 + i]]
FrameAux(p) == p[13]
FrameChecksum(p) == p[14] + 256 * p[15]

\* a frame the decoder accepts
WellFormed(p) ==
    /\ Len(p) = 16
    /\ p[1] \in {170, 172, 173}
    /\ p[16] = 204
    /\ p[4] <= 8

\* a checksummed frame whose checksum field is the CRC of bytes 1..12
CrcValid(p) == FrameChecksum(p) = packet_crc(p)

\* a frame that decodes and passes the checksum test
Accepted(p) == WellFormed(p) /\ (p[1] = 170 => CrcValid(p))

\* the frame is for the gateway as it was when the step began
ForUs(p) ==
    FrameDeviceId(p) \in {0, last.pre.node_id, last.pre.group_id}

\* the latest step was a stream frame that reached handle_message
Dispatched == last.kind = "stream" /\ Accepted(last.packet)

\* what the latest step wrote to the connection its frame came from
Reply == last.wrote[last.conn]

(***************************************************************************)
(* C1  handle_message on a MODEL frame writes a reply to the sink if and   *)
(* only if the frame's device_id is 0, node_id or group_id and need_ack is *)
(* set; otherwise it writes nothing.                                       *)
(***************************************************************************)
C1_ModelReplyIffAddressedAndAck ==
    (Dispatched /\ FrameFunctionCode(last.packet) = MODEL)
        => ((Reply # <<>>) <=> (ForUs(last.packet) /\ FrameNeedAck(last.packet)))

C1_Witness ==
    /\ Dispatched
    /\ FrameFunctionCode(last.packet) = MODEL
    /\ FrameDeviceId(last.packet) = 0
    /\ FrameNeedAck(last.packet)
    /\ Len(Reply) = 1

(***************************************************************************)
(* C2  A frame whose device_id is none of 0, node_id, group_id makes       *)
(* handle_message write nothing and change no field of the gateway state,  *)
(* whatever its function code, need_ack flag and data.                     *)
(***************************************************************************)
C2_NotAddressedIgnored ==
    (Dispatched /\ ~ForUs(last.packet))
        => (last.wrote = NoWrites /\ gateway = last.pre)

C2_Witness ==
    /\ Dispatched
    /\ ~ForUs(last.packet)
    /\ FrameFunctionCode(last.packet) = PROTOCOL_PARAMETER
    /\ FrameData(last.packet) = <<5, 3>>
    /\ last.pre.can_bitrate # 3
    /\ gateway = last.pre

(***************************************************************************)
(* C3  Every stream frame that decodes and passes the checksum test is     *)
(* published on the CAN bus exactly once, whatever the responder did with  *)
(* it.  (Steps in which the bus itself refused the frame are left out.)    *)
(***************************************************************************)
C3_AcceptedFramePublishedOnce ==
    (Dispatched /\ last.outcome # "CanError") => Len(last.can_sent) = 1

(***************************************************************************)
(* C4  The CAN frame published for a stream frame has the arbitration id   *)
(* of producer 4, consumer device_id and control word                      *)
(* (need_ack << 7) | function_code, the frame's data as payload and its    *)
(* data_length as DLC.                                                     *)
(***************************************************************************)
\* the arbitration id by the bit layout: producer low bits at 24, consumer
\* low bits at 19, producer high bits at 16, consumer high bits at 14
LayoutId(p, c, w) ==
    (p % 32) * 16777216 + (c % 32) * 524288 + ((p \div 32) % 4) * 65536
        + ((c \div 32) % 4) * 16384 + (w % 256)

C4_PublishedFrameFromMaster ==
    (Dispatched /\ last.can_sent # <<>>)
        => /\ last.can_sent[1].arbitration_id =
                  LayoutId(MASTER, FrameDeviceId(last.packet), last.packet[3])
           /\ last.can_sent[1].data = FrameData(last.packet)
           /\ last.can_sent[1].dlc = FrameDataLength(last.packet)

(***************************************************************************)
(* C5  A CAN frame with dlc <= 8 is written as exactly one 16-byte frame   *)
(* to each client of the connection set, the same bytes for all; the frame *)
(* decodes to device_id = producer id, need_ack and function_code from the *)
(* control word, data = the CAN payload, checksummed with a valid CRC;     *)
(* whatever the consumer id is.                                            *)
(***************************************************************************)
LayoutProducer(aid) == ((aid \div 65536) % 4) * 32 + ((aid \div 16777216) % 32)

CanFrameOf(m, p) ==
    /\ WellFormed(p)
    /\ p[1] = 170
    /\ CrcValid(p)
    /\ FrameDeviceId(p) = LayoutProducer(m.arbitration_id)
    /\ FrameNeedAck(p) = ((m.arbitration_id \div 128) % 2 = 1)
    /\ FrameFunctionCode(p) = m.arbitration_id % 128
    /\ FrameData(p) = m.data

C5_CanFrameFannedOut ==
    last.kind = "can"
        => \A c \in Conns :
              IF InSinks(c)
              THEN /\ Len(last.wrote[c]) = 1
                   /\ CanFrameOf(last.canmsg, last.wrote[c][1])
                   /\ \A d \in Conns :
                        InSinks(d) => last.wrote[d] = last.wrote[c]
              ELSE last.wrote[c] = <<>>

C5_Witness ==
    /\ last.kind = "can"
    /\ Len(tcp_sinks) >= 2
    /\ LayoutProducer(last.canmsg.arbitration_id) = 7
    /\ last.canmsg.data = <<222, 173>>
    /\ \A c \in Range(tcp_sinks) : Len(last.wrote[c]) = 1

(***************************************************************************)
(* C6  A stream frame that fails to decode (bad start byte, bad end byte   *)
(* or data_length > 8) is dropped alone: no reply, nothing on CAN, the     *)
(* connection stays open and in the connection set.                        *)
(***************************************************************************)
C6_DecodeErrorDropsFrameOnly ==
    (last.kind = "stream" /\ Len(last.packet) = 16 /\ ~WellFormed(last.packet))
        => /\ last.wrote = NoWrites
           /\ last.can_sent = <<>>
           /\ InSinks(last.conn)
           /\ conn[last.conn] = "open"

(***************************************************************************)
(* C7  A checksummed stream frame whose checksum is not the CRC of its     *)
(* bytes 1..12 gets no reply and no CAN publication, leaves the gateway    *)
(* state alone and leaves its connection open and in the connection set.   *)
(***************************************************************************)
BadChecksum(p) == WellFormed(p) /\ p[1] = 170 /\ ~CrcValid(p)

C7_BadChecksumDropped ==
    (last.kind = "stream" /\ BadChecksum(last.packet))
        => /\ last.wrote = NoWrites
           /\ last.can_sent = <<>>
           /\ gateway = last.pre
           /\ InSinks(last.conn)
           /\ conn[last.conn] = "open"

C7_Witness ==
    /\ last.kind = "stream"
    /\ BadChecksum(last.packet)
    /\ ForUs(last.packet)
    /\ FrameFunctionCode(last.packet) = MODEL
    /\ FrameNeedAck(last.packet)
    /\ conn[last.conn] = "open"

(***************************************************************************)
(* C8  When can_bus.send raises, the connection the frame came from is not *)
(* torn down: it stays in the connection set with its writer open.         *)
(***************************************************************************)
C8_CanFailureKeepsConnection ==
    (last.kind = "stream" /\ last.outcome = "CanError")
        => (InSinks(last.conn) /\ conn[last.conn] = "open")

(***************************************************************************)
(* C9  handle_message never raises, for any message the decoder can        *)
(* produce.                                                                *)
(***************************************************************************)
C9_HandleMessageNeverRaises ==
    Dispatched => last.outcome \notin {"IndexError", "ValueError"}

(***************************************************************************)
(* C10  An addressed PROTOCOL_PARAMETER frame with data [5, v] sets        *)
(* can_bitrate to v and gets exactly one reply, whose data is [5, v].      *)
(***************************************************************************)
C10_BitrateWriteAcknowledged ==
    (/\ Dispatched
     /\ ForUs(last.packet)
     /\ FrameFunctionCode(last.packet) = PROTOCOL_PARAMETER
     /\ FrameDataLength(last.packet) = 2
     /\ last.packet[5] = CAN_BITRATE)
        => /\ gateway.can_bitrate = last.packet[6]
           /\ Len(Reply) = 1
           /\ WellFormed(Reply[1])
           /\ FrameData(Reply[1]) = <<CAN_BITRATE, last.packet[6]>>

(***************************************************************************)
(* C11  An addressed PROTOCOL_PARAMETER frame with parameter index         *)
(* CAN_BITRATE and 3 to 8 data bytes is discarded: can_bitrate is          *)
(* unchanged and no reply is written.                                      *)
(***************************************************************************)
C11_LongBitrateFrameDiscarded ==
    (/\ Dispatched
     /\ ForUs(last.packet)
     /\ FrameFunctionCode(last.packet) = PROTOCOL_PARAMETER
     /\ FrameDataLength(last.packet) \in 3..8
     /\ last.packet[5] = CAN_BITRATE)
        => /\ gateway.can_bitrate = last.pre.can_bitrate
           /\ Reply = <<>>

(***************************************************************************)
(* C12  An addressed SERIAL_NUMBER frame with need_ack clear and 4 data    *)
(* bytes sets serial_number to the little-endian value of the data and     *)
(* gets one reply whose 8 data bytes pack the updated serial_number,       *)
(* manufacturer_id and vendor_id.                                          *)
(***************************************************************************)
LittleEndian(bytes) ==
    LET RECURSIVE Value(_)
        Value(i) == IF i > Len(bytes) THEN 0 ELSE bytes[i] + 256 * Value(i + 1)
    IN  Value(1)

C12_SerialNumberWriteStoredAndEchoed ==
    (/\ Dispatched
     /\ ForUs(last.packet)
     /\ FrameFunctionCode(last.packet) = SERIAL_NUMBER
     /\ ~FrameNeedAck(last.packet)
     /\ FrameDataLength(last.packet) = 4)
        => /\ gateway.serial_number = LittleEndian(FrameData(last.packet))
           /\ Len(Reply) = 1
           /\ WellFormed(Reply[1])
           /\ FrameDataLength(Reply[1]) = 8
           /\ LittleEndian(SubSeq(FrameData(Reply[1]), 1, 4)) = gateway.serial_number
           /\ LittleEndian(SubSeq(FrameData(Reply[1]), 5, 6)) = gateway.manufacturer_id
           /\ LittleEndian(SubSeq(FrameData(Reply[1]), 7, 8)) = gateway.vendor_id

(***************************************************************************)
(* C13  The reply to an addressed MODEL query with need_ack set has        *)
(* device_id = node_id, function_code = MODEL, data_length 8 and data      *)
(* 19 17 00 00 69 7A 00 00 (hex); for node_id 2 its bytes are              *)
(* AA 02 0B 08 19 17 00 00 69 7A 00 00 00, the CRC of bytes 1..12 low byte *)
(* first, CC.                                                              *)
(***************************************************************************)
C13_ModelReplyBytes ==
    (/\ Dispatched
     /\ ForUs(last.packet)
     /\ FrameFunctionCode(last.packet) = MODEL
     /\ FrameNeedAck(last.packet))
        => /\ Len(Reply) = 1
           /\ WellFormed(Reply[1])
           /\ FrameDeviceId(Reply[1]) = last.pre.node_id
           /\ FrameFunctionCode(Reply[1]) = MODEL
           /\ FrameDataLength(Reply[1]) = 8
           /\ FrameData(Reply[1]) = <<25, 23, 0, 0, 105, 122, 0, 0>>
           /\ last.pre.node_id = 2 =>
                 /\ SubSeq(Reply[1], 1, 13) =
                        <<170, 2, 11, 8, 25, 23, 0, 0, 105, 122, 0, 0, 0>>
                 /\ Reply[1][14] = crc16(SubSeq(Reply[1], 2, 13)) % 256
                 /\ Reply[1][15] = crc16(SubSeq(Reply[1], 2, 13)) \div 256
                 /\ Reply[1][16] = 204

C13_Witness ==
    /\ Dispatched
    /\ FrameDeviceId(last.packet) = GLOBAL
    /\ FrameFunctionCode(last.packet) = MODEL
    /\ FrameNeedAck(last.packet)
    /\ last.pre.node_id = 2
    /\ Reply = << <<170, 2, 11, 8, 25, 23, 0, 0, 105, 122, 0, 0, 0, 155, 96, 204>> >>

(***************************************************************************)
(* C14  Every frame the responder writes, for any request and in any       *)
(* gateway state, starts with 0xAA and carries the CRC of its bytes 1..12, *)
(* has bit 7 of the control word clear and aux_byte 0.                     *)
(***************************************************************************)
C14_RepliesChecksummedNoAck ==
    last.kind = "stream"
        => \A i \in DOMAIN Reply :
              /\ WellFormed(Reply[i])
              /\ Reply[i][1] = 170
              /\ CrcValid(Reply[i])
              /\ ~FrameNeedAck(Reply[i])
              /\ FrameAux(Reply[i]) = 0

C14_Witness ==
    /\ Dispatched
    /\ FrameFunctionCode(last.packet) = PROTOCOL_PARAMETER
    /\ last.pre.can_bitrate # KBPS_500
    /\ Len(Reply) = 1
    /\ Reply[1][1] = 170
    /\ CrcValid(Reply[1])

(***************************************************************************)
(* C15  With several clients connected, the reply to a frame from one      *)
(* client is written to that client's writer only: the step writes nothing *)
(* to any other connection.                                                *)
(***************************************************************************)
C15_ReplyToSenderOnly ==
    last.kind = "stream"
        => \A d \in Conns : d # last.conn => last.wrote[d] = <<>>

C15_Witness ==
    /\ last.kind = "stream"
    /\ Len(tcp_sinks) >= 2
    /\ Len(Reply) = 1
    /\ \A d \in Conns : d # last.conn => last.wrote[d] = <<>>

(***************************************************************************)
(* C18  tcp_sinks holds every connection whose read loop is running        *)
(* exactly once and no other: when a read loop stops (end of stream, read  *)
(* error, exception while handling a frame) the connection is out of       *)
(* tcp_sinks and its writer closed in the same step; the writer to remove  *)
(* is always in the list; and a CAN frame that arrives later is not        *)
(* written to it.                                                          *)
(***************************************************************************)
Occurrences(list, x) == Cardinality({i \in DOMAIN list : list[i] = x})

ReaderStopped ==
    \/ last.kind = "end"
    \/ last.kind = "stream" /\ ~continues(last.outcome)

C18_SinksAreTheOpenConnections ==
    /\ \A c \in Conns :
          Occurrences(tcp_sinks, c) = IF conn[c] = "open" THEN 1 ELSE 0
    /\ ReaderStopped => (conn[last.conn] = "closed" /\ ~InSinks(last.conn))
    /\ last.kind = "can" =>
          \A c \in Conns : conn[c] # "open" => last.wrote[c] = <<>>

C18_Witness ==
    /\ last.kind = "can"
    /\ \E c \in Conns : conn[c] = "closed" /\ last.wrote[c] = <<>>
    /\ \E d \in Conns : conn[d] = "open" /\ Len(last.wrote[d]) = 1

(***************************************************************************)
(* C19  As claimed: for a UIMessage with 0 to 8 data bytes and fields in   *)
(* range, deserialize(serialize(m)) reproduces every field of m, the       *)
(* checksum among them.                                                    *)
(***************************************************************************)
RoundTripDone == probe.op = "uimessage" /\ probe.stage = "done"

C19_RoundTripEveryField ==
    RoundTripDone => (probe.error = "ok" /\ probe.decoded = probe.message)

(***************************************************************************)
(* C19, amended  deserialize(serialize(m)) reproduces device_id,           *)
(* function_code, need_ack, need_checksum, aux_byte and data (the original *)
(* bytes, no padding).  The checksum is reproduced when need_checksum is   *)
(* false; when it is true the decoded checksum is the CRC of bytes 1..12   *)
(* of the frame, whatever m.checksum was.                                  *)
(***************************************************************************)
C19_RoundTripButChecksum ==
    RoundTripDone
        => /\ probe.error = "ok"
           /\ probe.decoded.device_id = probe.message.device_id
           /\ probe.decoded.function_code = probe.message.function_code
           /\ probe.decoded.need_ack = probe.message.need_ack
           /\ probe.decoded.need_checksum = probe.message.need_checksum
           /\ probe.decoded.aux_byte = probe.message.aux_byte
           /\ probe.decoded.data = probe.message.data
           /\ probe.decoded.checksum =
                 IF probe.message.need_checksum
                 THEN crc16(SubSeq(probe.packet, 2, 13))
                 ELSE probe.message.checksum

C19_Witness ==
    /\ RoundTripDone
    /\ probe.message.need_checksum
    /\ probe.message.need_ack
    /\ probe.message.checksum = 0
    /\ probe.message.data = <<1, 2, 3, 4, 5, 6, 7, 0>>
    /\ probe.decoded.data = probe.message.data
    /\ probe.decoded.checksum # 0

(***************************************************************************)
(* C20  For producer and consumer ids in 0..127 and a control word in      *)
(* 0..255, from_arbitration_id of the packed arbitration id gives the same *)
(* three values back, and the packed value is below 2^29 with bit 18 and   *)
(* bits 13..8 clear.                                                       *)
(***************************************************************************)
IdRoundTripDone == probe.op = "canid" /\ probe.stage = "done"

C20_ArbitrationIdRoundTrip ==
    IdRoundTripDone
        => /\ probe.unpacked = probe.ident
           /\ probe.aid \in 0..(2^29 - 1)
           /\ (probe.aid \div 2^18) % 2 = 0
           /\ (probe.aid \div 2^8) % 64 = 0

C20_Witness ==
    /\ IdRoundTripDone
    /\ probe.ident = SimpleCANIdentifier(96, 33, 139)
    /\ probe.aid = 737419
    /\ probe.unpacked = probe.ident

(***************************************************************************)
(* C16  CAN frames are fanned out in bus order, each in one step: the      *)
(* frames fanned out so far are the first ones the bus delivered, in that  *)
(* order, and the rest are still queued; a fan-out writes the frame to     *)
(* every connection that was in tcp_sinks when it began and to no other,   *)
(* and leaves tcp_sinks as it was, so that all of them are written before  *)
(* the next frame and before any connection is added or removed; and the   *)
(* CAN frames a client has received are, in order, the frames of the       *)
(* fan-outs it was connected for.                                          *)
(***************************************************************************)
IsCanStep(e) == e.step.kind = "can"

CanSteps == SelectSeq(trace, IsCanStep)

\* the frames written to connection c by the first n fan-outs, as on_can_message
\* serializes them
RECURSIVE FannedOutTo(_, _)
FannedOutTo(c, n) ==
    IF n = 0 THEN <<>>
    ELSE FannedOutTo(c, n - 1)
         \o (IF c \in Range(CanSteps[n].sinks)
             THEN << serialized(from_can(can_seen[n])) >>
             ELSE <<>>)

\* what the CAN steps among the first n steps of the trace wrote to c
RECURSIVE CanWritten(_, _)
CanWritten(c, n) ==
    IF n = 0 THEN <<>>
    ELSE CanWritten(c, n - 1)
         \o (IF IsCanStep(trace[n]) THEN trace[n].step.wrote[c] ELSE <<>>)

C16_FanOutInBusOrder ==
    /\ Len(CanSteps) <= Len(can_seen)
    /\ \A i \in DOMAIN CanSteps : CanSteps[i].step.canmsg = can_seen[i]
    /\ can_queue = SubSeq(can_seen, Len(CanSteps) + 1, Len(can_seen))
    /\ \A i \in DOMAIN trace :
          IsCanStep(trace[i]) =>
             /\ \A c \in Conns :
                   Len(trace[i].step.wrote[c]) =
                       IF c \in Range(trace[i].sinks) THEN 1 ELSE 0
             /\ i < Len(trace) => trace[i + 1].sinks = trace[i].sinks
             /\ i = Len(trace) => tcp_sinks = trace[i].sinks
    /\ Len(CanSteps) <= Len(can_seen) =>
          \A c \in Conns :
             CanWritten(c, Len(trace)) = FannedOutTo(c, Len(CanSteps))

C16_Witness ==
    /\ Len(CanSteps) = 2
    /\ CanSteps[1].step.canmsg # CanSteps[2].step.canmsg
    /\ Len(CanSteps[1].sinks) = 2
    /\ Len(CanSteps[2].sinks) = 1
    /\ \E c \in Conns : Len(CanWritten(c, Len(trace))) = 2

(***************************************************************************)
(* C17  On one connection the frames are handled in arrival order, one at  *)
(* a time: the frames handled so far are the first ones that arrived, in   *)
(* that order, and the rest are still in the reader; each was handled in   *)
(* one step that wrote its reply and published it on CAN before the next   *)
(* began; so the replies on the connection and the CAN frames published    *)
(* for it are in the order of the frames.                                  *)
(***************************************************************************)
\* the read-loop iterations of connection c, in order
StreamSteps(c) ==
    LET IsMine(e) == e.step.kind = "stream" /\ e.step.conn = c
    IN  SelectSeq(trace, IsMine)

\* what handling the first n frames that arrived on c, each in the gateway
\* state its step found, writes to c and publishes on CAN
RECURSIVE RepliesDue(_, _)
RepliesDue(c, n) ==
    IF n = 0 THEN <<>>
    ELSE RepliesDue(c, n - 1)
         \o handle_packet(StreamSteps(c)[n].step.pre, sent[c][n], TRUE).reply

RECURSIVE PublicationsDue(_, _)
PublicationsDue(c, n) ==
    IF n = 0 THEN <<>>
    ELSE PublicationsDue(c, n - 1)
         \o handle_packet(StreamSteps(c)[n].step.pre, sent[c][n],
                          StreamSteps(c)[n].step.outcome # "CanError").can_sent

\* what the read-loop iterations of c among the first n steps of the trace
\* wrote to c and published on CAN
RECURSIVE RepliesWritten(_, _)
RepliesWritten(c, n) ==
    IF n = 0 THEN <<>>
    ELSE RepliesWritten(c, n - 1)
         \o (IF trace[n].step.kind = "stream" /\ trace[n].step.conn = c
             THEN trace[n].step.wrote[c] ELSE <<>>)

RECURSIVE Published(_, _)
Published(c, n) ==
    IF n = 0 THEN <<>>
    ELSE Published(c, n - 1)
         \o (IF trace[n].step.kind = "stream" /\ trace[n].step.conn = c
             THEN trace[n].step.can_sent ELSE <<>>)

C17_FramesHandledInArrivalOrder ==
    \A c \in Conns :
       /\ Len(StreamSteps(c)) <= Len(sent[c])
       /\ \A i \in DOMAIN StreamSteps(c) : StreamSteps(c)[i].step.packet = sent[c][i]
       /\ rx[c] = SubSeq(sent[c], Len(StreamSteps(c)) + 1, Len(sent[c]))
       /\ Len(StreamSteps(c)) <= Len(sent[c]) =>
             /\ RepliesWritten(c, Len(trace)) = RepliesDue(c, Len(StreamSteps(c)))
             /\ Published(c, Len(trace)) = PublicationsDue(c, Len(StreamSteps(c)))

C17_Witness ==
    \E c \in Conns :
       /\ Len(StreamSteps(c)) = 2
       /\ StreamSteps(c)[1].step.packet = S3Packet
       /\ StreamSteps(c)[2].step.packet = S1Packet
       /\ Len(RepliesWritten(c, Len(trace))) = 2
       /\ FrameFunctionCode(RepliesWritten(c, Len(trace))[1]) = PROTOCOL_PARAMETER
       /\ FrameFunctionCode(RepliesWritten(c, Len(trace))[2]) = MODEL
       /\ Len(Published(c, Len(trace))) = 2

(***************************************************************************)
(* C21  As claimed: a checksummed frame from serialize is accepted, and    *)
(* with any single bit of bytes 1..12 inverted it is rejected by the       *)
(* checksum test, with no other outcome.                                   *)
(***************************************************************************)
C21_AnyBitFlipIsBadChecksum ==
    /\ (probe.op = "wire" /\ probe.stage = "received") => probe.error = "ok"
    /\ (probe.op = "wire" /\ probe.stage = "received_flipped")
          => probe.error = "bad_checksum"

(***************************************************************************)
(* C21, amended  A checksummed frame from serialize is accepted.  With any *)
(* single bit of bytes 1..12 inverted it is never accepted: the checksum   *)
(* test rejects it, unless the inverted bit makes data_length exceed 8, in *)
(* which case deserialize raises on the length before the checksum is      *)
(* looked at.                                                              *)
(***************************************************************************)
C21_BitFlipIsRejected ==
    /\ (probe.op = "wire" /\ probe.stage = "received") => probe.error = "ok"
    /\ (probe.op = "wire" /\ probe.stage = "received_flipped")
          => probe.error = IF FrameDataLength(probe.packet) > 8
                           THEN "assert_length" ELSE "bad_checksum"

C21_Witness ==
    /\ probe.op = "wire"
    /\ probe.stage = "received_flipped"
    /\ probe.message.data = <<1, 2, 3, 4, 5, 6, 7, 8>>
    /\ probe.packet[12] = 0
    /\ probe.error = "bad_checksum"

(***************************************************************************)
(* C22  A frame that starts with 0xAC is decoded with need_checksum set:   *)
(* when its checksum field is not the CRC of bytes 1..12 the bridge drops  *)
(* it, with no reply and no CAN publication.                               *)
(***************************************************************************)
C22_ACFrameChecksumTested ==
    (/\ last.kind = "stream"
     /\ WellFormed(last.packet)
     /\ last.packet[1] = 172
     /\ ~CrcValid(last.packet))
        => /\ last.outcome = "bad_checksum"
           /\ last.wrote = NoWrites
           /\ last.can_sent = <<>>

(***************************************************************************)
(* C23  A read that returns 1 to 15 bytes while the connection is open     *)
(* does not reach the decoder and does not end the connection: the         *)
(* connection stays open and in tcp_sinks, waiting for the rest of the     *)
(* frame.                                                                  *)
(***************************************************************************)
C23_ShortReadKeepsConnection ==
    (last.kind = "stream" /\ Len(last.packet) \in 1..15)
        => /\ last.outcome \in {"ok", "bad_checksum"}
           /\ conn[last.conn] = "open"
           /\ InSinks(last.conn)

(***************************************************************************)
(* C24  The gateway state changes only in a stream step that handles an    *)
(* addressed PROTOCOL_PARAMETER write (index and one value byte) or        *)
(* SERIAL_NUMBER write (need_ack clear, 4 data bytes); every other stream  *)
(* step and every CAN step leaves the six fields as they were; node_id and *)
(* group_id never change.                                                  *)
(***************************************************************************)
IsWrite(p) ==
    \/ FrameFunctionCode(p) = PROTOCOL_PARAMETER /\ FrameDataLength(p) = 2
    \/ /\ FrameFunctionCode(p) = SERIAL_NUMBER
       /\ ~FrameNeedAck(p)
       /\ FrameDataLength(p) = 4

C24_StateChangesOnlyOnWrites ==
    /\ gateway # last.pre
          => /\ Dispatched
             /\ ForUs(last.packet)
             /\ IsWrite(last.packet)
    /\ gateway.node_id = UIM2523
    /\ gateway.group_id = UIM2523

(***************************************************************************)
(* C26  No frame goes back to the side it came from: a CAN step publishes  *)
(* nothing on CAN, leaves the gateway state alone and writes each client   *)
(* the fanned-out frame and nothing else, even when the frame is a MODEL   *)
(* query addressed to the gateway; a stream step writes nothing to any     *)
(* other client, and to its own client only what the responder replies.    *)
(***************************************************************************)
ResponderOutput ==
    IF Dispatched
    THEN handle_message(last.pre, deserialize(last.packet)).out
    ELSE <<>>

C26_NoReflection ==
    /\ last.kind = "can"
          => /\ last.can_sent = <<>>
             /\ gateway = last.pre
             /\ \A c \in Conns :
                   last.wrote[c] =
                       IF conn[c] = "open"
                       THEN << serialized(from_can(last.canmsg)) >>
                       ELSE <<>>
    /\ last.kind = "stream"
          => /\ \A d \in Conns : d # last.conn => last.wrote[d] = <<>>
             /\ Reply = ResponderOutput

C26_Witness ==
    /\ last.kind = "can"
    /\ last.canmsg.arbitration_id = LayoutId(7, 2, 139)
    /\ Len(tcp_sinks) >= 1
    /\ last.can_sent = <<>>
    /\ \A c \in Range(tcp_sinks) : Len(last.wrote[c]) = 1

(***************************************************************************)
(* C25  After the interrupt the bridge eventually is shut down: main() has *)
(* closed the listener, stopped the notifier and shut the bus down, no     *)
(* read loop is running and tcp_sinks is empty, every writer closed; and   *)
(* once the notifier is stopped no CAN frame is fanned out to a client.    *)
(***************************************************************************)
ShutDown ==
    /\ main_pc = "stopped"
    /\ tcp_sinks = <<>>
    /\ \A c \in Conns : conn[c] # "open"

ShutdownCompletes == (main_pc = "cancelled") ~> ShutDown

FanOutStep ==
    /\ trace' # trace
    /\ last'.kind = "can"
    /\ last'.wrote # NoWrites

NoFanOutAfterStop == [][main_pc = "stopped" => ~FanOutStep]_vars

C25_ShutdownCompletesAndSilencesCan ==
    ShutdownCompletes /\ NoFanOutAfterStop

=============================================================================
